---- MODULE Spec2Model ----
(***************************************************************************)
(* Model of vendor-rs' concurrent install/update pipeline:                 *)
(*   - VendorLock (src/core/spec_lock.rs): add, find_dep, lint             *)
(*   - DependencyManager (src/core/managers/dependency.rs): install,       *)
(*     update, import, copy_files and the filter predicates                *)
(*   - VendorManager (src/core/managers/vendor.rs): execute, update_lock,  *)
(*     inner_install, inner_update, recreate_vendor_path                   *)
(*                                                                         *)
(* Rust Strings (urls, patterns, paths) are sequences of ASCII codes, so   *)
(* that byte-wise ordering, eq_ignore_ascii_case, path components and file *)
(* extensions are computed as the code computes them.  Reference names are *)
(* only ever copied and compared for equality, so they are TLA+ strings.   *)
(***************************************************************************)
EXTENDS Naturals, Sequences, FiniteSets

VARIABLES
    lock,       \* VendorManager.lock : the VendorLock behind the RwLock
    now,        \* the wall clock read by Utc::now()
    loaded,     \* the persisted deps list the VendorLock was loaded from
    call,       \* the VendorLock method call last made on the store
    spec,       \* VendorManager.spec : the Spec behind its RwLock
    mode,       \* the action execute was given: "install" or "update"
    prior,      \* the entries of the VendorLock when the run started
    vendor,     \* the file system at spec.vendor: its kind and its files
    opc,        \* where the thread that runs execute is
    joined,     \* how many handles execute has joined
    writer,     \* execute holds the write guard of the lock
    job,        \* per spawned thread: position, guards, repository, result
    finished    \* history: the threads that have returned, in the order they returned

svars == <<lock, now, loaded, call>>
rvars == <<spec, mode, prior, vendor, opc, joined, writer, job, finished>>
vars == <<lock, now, loaded, call, spec, mode, prior, vendor, opc, joined, writer, job,
          finished>>

(***************************************************************************)
(* Bounds of the model.                                                    *)
(***************************************************************************)
MaxClock == 1       \* the largest value Utc::now() returns
MaxLoad == 3        \* longest persisted deps list that is loaded
MaxDeps == 2        \* longest dependency list of a run

(***************************************************************************)
(* Strings                                                                 *)
(***************************************************************************)
Min(S) == CHOOSE x \in S : \A y \in S : x <= y

\* u8::to_ascii_lowercase
to_ascii_lowercase(c) == IF c >= 65 /\ c <= 90 THEN c + 32 ELSE c

\* str::eq_ignore_ascii_case
eq_ignore_ascii_case(a, b) ==
    /\ Len(a) = Len(b)
    /\ \A i \in 1..Len(a) : to_ascii_lowercase(a[i]) = to_ascii_lowercase(b[i])

\* String's Ord: byte-wise lexicographic, a < b
str_lt(a, b) ==
    LET n == IF Len(a) < Len(b) THEN Len(a) ELSE Len(b)
        diff == {i \in 1..n : a[i] # b[i]}
    IN  IF diff = {} THEN Len(a) < Len(b)
        ELSE a[Min(diff)] < b[Min(diff)]

\* Option<T>
None == <<>>
Some(x) == <<x>>

(***************************************************************************)
(* VendorLock                                                              *)
(***************************************************************************)
DependencyLock(url, refname) == [url |-> url, refname |-> refname]

\* a plausible slip: the lookup compares the urls byte for byte
find_dep_exact(deps, url) ==
    LET hits == {i \in 1..Len(deps) : deps[i].url = url}
    IN  IF hits = {} THEN 0 ELSE Min(hits)

\* position of the first entry whose url equals `url` ignoring ASCII case,
\* 0 when there is none (the iterator .find of find_dep / find_dep_mut)
find_dep_mut(deps, url) ==
    LET hits == {i \in 1..Len(deps) : eq_ignore_ascii_case(deps[i].url, url)}
    IN  IF hits = {} THEN 0 ELSE Min(hits)

\* VendorLock::find_dep
find_dep(deps, url) ==
    LET i == find_dep_mut(deps, url)
    IN  IF i = 0 THEN None ELSE Some(deps[i])

\* a plausible slip: the found entry is overwritten whole, url included
add_overwrite(l, dep, t) ==
    LET i == find_dep_mut(l.deps, dep.url)
    IN  [deps |-> IF i # 0
                  THEN [l.deps EXCEPT ![i] = dep]
                  ELSE Append(l.deps, dep),
         updated_at |-> t]

\* VendorLock::add, with t the value Utc::now() returns
add(l, dep, t) ==
    LET i == find_dep_mut(l.deps, dep.url)
    IN  [deps |-> IF i # 0
                  THEN [l.deps EXCEPT ![i].refname = dep.refname]
                  ELSE Append(l.deps, dep),
         updated_at |-> t]

\* slice::sort_by(|a, b| a.url.cmp(&b.url)): a stable sort on the url bytes
RECURSIVE sort_by(_)
sort_by(s) ==
    IF Len(s) <= 1 THEN s
    ELSE LET front == sort_by(SubSeq(s, 1, Len(s) - 1))
             x == s[Len(s)]
             k == Cardinality({i \in 1..Len(front) : ~ str_lt(x.url, front[i].url)})
         IN  SubSeq(front, 1, k) \o <<x>> \o SubSeq(front, k + 1, Len(front))

\* Vec::dedup_by(|a, b| a.url.eq_ignore_ascii_case(&b.url)): an element is
\* removed when it equals the last retained element
RECURSIVE dedup_by(_)
dedup_by(s) ==
    IF Len(s) <= 1 THEN s
    ELSE LET front == dedup_by(SubSeq(s, 1, Len(s) - 1))
             x == s[Len(s)]
         IN  IF eq_ignore_ascii_case(x.url, front[Len(front)].url)
             THEN front
             ELSE Append(front, x)

\* a plausible slip: the two statements of lint in the other order
lint_dedup_first(l) == [l EXCEPT !.deps = sort_by(dedup_by(l.deps))]

\* LoadableConfig::lint for VendorLock
lint(l) == [l EXCEPT !.deps = dedup_by(sort_by(l.deps))]

(***************************************************************************)
(* The Lock Store on its own: a persisted deps list is loaded, linted once *)
(* and then upserted into.                                                 *)
(***************************************************************************)
\* "A", "B", "a": the byte order puts "B" between "A" and "a"
StoreUrls == {<<65>>, <<66>>, <<97>>}
StoreRefs == {"c1", "c2"}
StoreEntries == {DependencyLock(u, r) : u \in StoreUrls, r \in StoreRefs}

RECURSIVE ListsUpTo(_, _)
ListsUpTo(S, n) ==
    IF n = 0 THEN {<<>>}
    ELSE LET shorter == ListsUpTo(S, n - 1)
         IN  shorter \cup {Append(l, x) : l \in {m \in shorter : Len(m) = n - 1}, x \in S}

\* Utc::now(): whatever the wall clock holds; the clock can be set back, so
\* a reading may be earlier than the one before it
Utc_now(t) == t \in 0..MaxClock

InitStore ==
    /\ now = 0
    /\ loaded \in ListsUpTo(StoreEntries, MaxLoad)
    /\ lock = [deps |-> loaded, updated_at |-> 0]
    /\ call = [op |-> "load", arg |-> None, before |-> <<>>]
    /\ spec = [vendor |-> <<>>, ignores |-> <<>>, targets |-> <<>>,
               extensions |-> <<>>, deps |-> <<>>]
    /\ mode = "none"
    /\ prior = <<>>
    /\ vendor = [kind |-> "absent", files |-> {}]
    /\ opc = "none"
    /\ joined = 0
    /\ writer = FALSE
    /\ job = <<>>
    /\ finished = <<>>

\* load_from lints what it has read
LintCall ==
    /\ call.op = "load"
    /\ lock' = lint(lock)
    /\ call' = [op |-> "lint", arg |-> None, before |-> lock.deps]
    /\ UNCHANGED <<now, loaded>>
    /\ UNCHANGED rvars

AddCall ==
    /\ call.op \in {"lint", "add"}
    /\ \E dep \in StoreEntries, t \in 0..MaxClock :
         /\ Utc_now(t)
         /\ now' = t
         /\ lock' = add(lock, dep, t)
         /\ call' = [op |-> "add", arg |-> Some(dep), before |-> lock.deps]
    /\ UNCHANGED loaded
    /\ UNCHANGED rvars

NextStore == LintCall \/ AddCall

SpecStore == InitStore /\ [][NextStore]_vars

(***************************************************************************)
(* Paths and the filter predicates of DependencyManager                    *)
(***************************************************************************)
Max(S) == CHOOSE x \in S : \A y \in S : x >= y

\* the pieces of a path string between its '/' separators
RECURSIVE split_slash(_)
split_slash(s) ==
    IF s = <<>> THEN << <<>> >>
    ELSE LET rest == split_slash(Tail(s))
         IN  IF Head(s) = 47
             THEN << <<>> >> \o rest
             ELSE << <<Head(s)>> \o Head(rest) >> \o Tail(rest)

\* Path::components: a leading '/' is the root component, empty pieces and
\* "." pieces are dropped, except a "." that starts a relative path
components(s) ==
    LET segs == split_slash(s)
        root == s # <<>> /\ s[1] = 47
        lead == IF root THEN << <<47>> >>
                ELSE IF segs[1] = <<46>> THEN << <<46>> >>
                ELSE <<>>
        keep(c) == c # <<>> /\ c # <<46>>
    IN  lead \o SelectSeq(segs, keep)

\* Path::starts_with: whole components only
starts_with(path, base) ==
    LET p == components(path)
        b == components(base)
    IN  Len(b) <= Len(p) /\ SubSeq(p, 1, Len(b)) = b

\* Path::file_name: the last component, unless it is the root, "." or ".."
file_name(path) ==
    LET c == components(path)
    IN  IF c = <<>> THEN None
        ELSE IF c[Len(c)] \in {<<47>>, <<46>>, <<46, 46>>} THEN None
        ELSE Some(c[Len(c)])

\* Path::extension: what follows the last '.' of the file name; none when
\* the name has no '.' or only a leading one
extension(path) ==
    LET f == file_name(path)
    IN  IF f = None THEN None
        ELSE LET name == f[1]
                 dots == {i \in 1..Len(name) : name[i] = 46}
             IN  IF dots = {} \/ Max(dots) = 1 THEN None
                 ELSE Some(SubSeq(name, Max(dots) + 1, Len(name)))

\* Path::join for a relative `rel`
join(root, rel) == root \o <<47>> \o rel

\* the boxed closures of path_matcher and extension_matcher: what each has
\* captured, and what calling it on a pattern returns
path_matcher(path) == [captures |-> "path", path |-> path]

extension_matcher(input) == [captures |-> "input", input |-> input]

call_matcher(matcher, pattern) ==
    IF matcher.captures = "path"
    THEN starts_with(matcher.path, pattern)
    ELSE eq_ignore_ascii_case(matcher.input, pattern)

chained_any(a, b, matcher) ==
    \E i \in 1..Len(a \o b) : call_matcher(matcher, (a \o b)[i])

is_ignored(vendor_spec, dependency, path) ==
    chained_any(vendor_spec.ignores, dependency.ignores, path_matcher(path))

\* a plausible slip: no target pattern anywhere selects every path
is_target_default_all(vendor_spec, dependency, path) ==
    \/ Len(vendor_spec.targets \o dependency.targets) = 0
    \/ chained_any(vendor_spec.targets, dependency.targets, path_matcher(path))

is_target(vendor_spec, dependency, path) ==
    chained_any(vendor_spec.targets, dependency.targets, path_matcher(path))

\* a plausible slip: the extension is compared byte for byte
is_extension_exact(vendor_spec, dependency, path) ==
    LET ext == extension(path)
        all == vendor_spec.extensions \o dependency.extensions
    IN  IF ext # None
        THEN \E i \in 1..Len(all) : all[i] = ext[1]
        ELSE FALSE

is_extension(vendor_spec, dependency, path) ==
    LET ext == extension(path)
    IN  IF ext # None
        THEN chained_any(vendor_spec.extensions, dependency.extensions,
                         extension_matcher(ext[1]))
        ELSE FALSE

\* a plausible slip: the extension test of the loop is left out
copy_decision_no_extension(vendor_spec, dependency, path) ==
    IF is_ignored(vendor_spec, dependency, path) THEN "IGNORED"
    ELSE IF ~ is_target(vendor_spec, dependency, path) THEN "NOT TARGET"
    ELSE "COPY"

\* the body of the copy_files loop for one path: which `continue` is taken,
\* or the copy
copy_decision(vendor_spec, dependency, path) ==
    IF is_ignored(vendor_spec, dependency, path) THEN "IGNORED"
    ELSE IF ~ is_target(vendor_spec, dependency, path) THEN "NOT TARGET"
    ELSE IF ~ is_extension(vendor_spec, dependency, path) THEN "IGNORED EXTENSION"
    ELSE "COPY"

(***************************************************************************)
(* The inputs of a run                                                     *)
(***************************************************************************)
Dependency(url, refname, ignores, targets, extensions) ==
    [url |-> url, refname |-> refname, ignores |-> ignores,
     targets |-> targets, extensions |-> extensions]

\* relative paths of the working copies: "a/x.p", "a/x.t", "i/y.p", "b/z.P"
P_a_x_p == <<97, 47, 120, 46, 112>>
P_a_x_t == <<97, 47, 120, 46, 116>>
P_i_y_p == <<105, 47, 121, 46, 112>>
P_b_z_P == <<98, 47, 122, 46, 80>>
\* and of the working copy of "C": "a/i/y.p", "ab/x.p", "a/x", "a/z.P", "a/.p"
P_a_i_y_p == <<97, 47, 105, 47, 121, 46, 112>>
P_ab_x_p == <<97, 98, 47, 120, 46, 112>>
P_a_x == <<97, 47, 120>>
P_a_z_P == <<97, 47, 122, 46, 80>>
P_a_dot_p == <<97, 47, 46, 112>>

\* the dependencies a spec may list: "A"@main, "a"@c1, "B"@main (with its
\* own target "b")
DepChoices ==
    { Dependency(<<65>>, "main", <<>>, <<>>, <<>>),
      Dependency(<<97>>, "c1", <<>>, <<>>, <<>>),
      Dependency(<<66>>, "main", <<>>, << <<98>> >>, <<>>) }

\* the Spec of a run: vendor folder "v", ignore "i", target "a", extension "p"
RunSpec(deps) ==
    [vendor |-> <<118>>, ignores |-> << <<105>> >>, targets |-> << <<97>> >>,
     extensions |-> << <<112>> >>, deps |-> deps]

\* entries a previous run may have locked: "A"@c1, "B"@c1, "a"@c0
PriorEntries ==
    { DependencyLock(<<65>>, "c1"), DependencyLock(<<66>>, "c1"),
      DependencyLock(<<97>>, "c0") }

\* the lock files a run may start from, as load and lint leave them: the
\* empty one, one of a single entry, and the one of three entries in which
\* lint leaves two spellings of one identity
PriorLocks ==
    {lint([deps |-> l, updated_at |-> 0]).deps :
        l \in {m \in ListsUpTo(PriorEntries, MaxLoad) :
                \/ m = <<>>
                \/ m = <<DependencyLock(<<65>>, "c1")>>
                \/ /\ Len(m) = 3
                   /\ \A e \in PriorEntries : \E i \in 1..3 : m[i] = e}}

(***************************************************************************)
(* Repository: the git working copy of one dependency                      *)
(***************************************************************************)
\* the commit a reference expression names: the branch main is at c2
resolve(refname) == IF refname = "main" THEN "c2" ELSE refname

\* Repository::iter at a commit: the files of the working copy, as paths
\* relative to repository.path (what strip_prefix leaves)
Repository_iter(url, commit) ==
    IF eq_ignore_ascii_case(url, <<97>>)
    THEN IF commit = "c2" THEN <<P_a_x_p>>
         ELSE <<P_a_x_p, P_i_y_p>>
    ELSE IF url = <<67>>
    THEN <<P_a_x_p, P_a_i_y_p, P_ab_x_p, P_a_x, P_a_z_P, P_a_dot_p>>
    ELSE <<P_a_x_p, P_b_z_P>>

Repository_new == [ensured |-> FALSE, fetched |-> None, head |-> None]

(***************************************************************************)
(* A run of VendorManager::execute                                         *)
(***************************************************************************)
NoResult == [tag |-> "none"]
Ok(v) == [tag |-> "ok", val |-> v]
Err(e) == [tag |-> "err", err |-> e]

Jobs == 1..Len(spec.deps)

NewJob ==
    [pc |-> "idle", reading |-> FALSE, dependency_lock |-> None,
     repository |-> Repository_new, cursor |-> 0, copied |-> {},
     clean |-> TRUE, result |-> NoResult]

InitRun(s, m, l) ==
    /\ now = 0
    /\ loaded = <<>>
    /\ call = [op |-> "none", arg |-> None, before |-> <<>>]
    /\ spec = s
    /\ mode = m
    /\ lock = [deps |-> l, updated_at |-> 0]
    /\ prior = l
    /\ vendor \in { [kind |-> "absent", files |-> {}],
                    [kind |-> "file", files |-> {}],
                    [kind |-> "link", files |-> {}],
                    [kind |-> "dangling", files |-> {}],
                    [kind |-> "dir",
                     files |-> {[path |-> join(s.vendor, P_a_x_t),
                                 content |-> [url |-> <<>>, commit |-> "stale",
                                              path |-> P_a_x_t, bytes |-> "whole"]]}] }
    /\ opc = "setup"
    /\ joined = 0
    /\ writer = FALSE
    /\ job = [j \in 1..Len(s.deps) |-> NewJob]
    /\ finished = <<>>

\* the dependency lists of a spec: no dependency is listed twice, but two
\* may name one identity in different letter case
DepLists ==
    {l \in ListsUpTo(DepChoices, MaxDeps) : \A i, k \in 1..Len(l) : l[i] = l[k] => i = k}

Init ==
    \E deps \in DepLists, m \in {"install", "update"}, l \in PriorLocks :
        InitRun(RunSpec(deps), m, l)

\* Runs of one dependency, "C"@main, under every combination of spec-level
\* and dependency-level filters: ignores none, "a/i" or "" (the empty path),
\* targets none, "a" or "ab", extensions none, "p" or "P" and "t"
IgnoreChoices == {<<>>, << <<97, 47, 105>> >>, << <<>> >>}
TargetChoices == {<<>>, << <<97>> >>, << <<97, 98>> >>}
ExtensionChoices == {<<>>, << <<112>> >>, << <<80>>, <<116>> >>}

InitCopy ==
    \E si, di \in IgnoreChoices, st, dt \in TargetChoices,
       se, de \in ExtensionChoices, m \in {"install", "update"} :
        InitRun([vendor |-> <<118>>, ignores |-> si, targets |-> st, extensions |-> se,
                 deps |-> << Dependency(<<67>>, "main", di, dt, de) >>],
                m, <<>>)

\* what is at the vendor path: nothing ("absent"), a directory ("dir", also
\* a symbolic link to one), a plain file ("file"), a symbolic link to a
\* plain file ("link") or a symbolic link to nothing ("dangling").
\* Path::exists follows links: it is false for nothing and for a dangling link
path_exists(v) == v.kind \in {"dir", "file", "link"}

\* what fs::remove_dir_all can delete: a directory with its contents, and a
\* symbolic link, which it unlinks without looking at what the link names; a
\* plain file makes it fail
removable(v) == v.kind \in {"dir", "link"}

\* what a failed fs::remove_dir_all leaves: a plain file or a link is
\* untouched; of a directory any part of the contents may already be
\* deleted, the folder itself is still there
remove_dir_all_err(v) ==
    IF v.kind = "dir"
    THEN {[kind |-> "dir", files |-> left] : left \in SUBSET v.files}
    ELSE {v}

\* a plausible slip: the destination directory is reused without being emptied
recreate_vendor_path_keep ==
    /\ opc = "setup"
    /\ \E rm_ok, mk_ok \in BOOLEAN :
         LET deleted == ~ path_exists(vendor) \/ (removable(vendor) /\ rm_ok)
             created == vendor.kind # "dangling" /\ mk_ok
         IN  IF deleted /\ created
             THEN /\ vendor' = [kind |-> "dir", files |-> vendor.files]
                  /\ opc' = IF Len(spec.deps) = 0 THEN "join" ELSE "spawn"
             ELSE /\ vendor' \in IF ~ deleted THEN remove_dir_all_err(vendor)
                                  ELSE IF vendor.kind = "dangling" THEN {vendor}
                                  ELSE {[kind |-> "absent", files |-> {}]}
                  /\ opc' = "failed"
    /\ UNCHANGED <<svars, spec, mode, prior, joined, writer, job, finished>>

\* execute, line 50: recreate_vendor_path.  delete_vendor_path removes a
\* path that exists with remove_dir_all, which fails on a plain file and may
\* fail on a directory or a link; create_vendor_path then creates the
\* directory where nothing is left, which may fail too and always fails on
\* a dangling link.  An error returns from execute at once.
recreate_vendor_path ==
    /\ opc = "setup"
    /\ \E rm_ok, mk_ok \in BOOLEAN :
         LET deleted == ~ path_exists(vendor) \/ (removable(vendor) /\ rm_ok)
             created == vendor.kind # "dangling" /\ mk_ok
         IN  IF deleted /\ created
             THEN /\ vendor' = [kind |-> "dir", files |-> {}]
                  /\ opc' = IF Len(spec.deps) = 0 THEN "join" ELSE "spawn"
             ELSE /\ vendor' \in IF ~ deleted THEN remove_dir_all_err(vendor)
                                  ELSE IF vendor.kind = "dangling" THEN {vendor}
                                  ELSE {[kind |-> "absent", files |-> {}]}
                  /\ opc' = "failed"
    /\ UNCHANGED <<svars, spec, mode, prior, joined, writer, job, finished>>

\* execute, lines 59-61: one s.spawn per dependency, in the order of the list
spawn ==
    /\ opc = "spawn"
    /\ LET k == Min({j \in Jobs : job[j].pc = "idle"})
       IN  /\ job' = [job EXCEPT ![k].pc = "start"]
           /\ opc' = IF k = Len(spec.deps) THEN "join" ELSE "spawn"
    /\ UNCHANGED <<svars, spec, mode, prior, vendor, joined, writer, finished>>

\* a plausible slip: the read guard outlives the thread
Return_keep_guard(j, res) ==
    job' = [job EXCEPT ![j].pc = "done", ![j].clean = TRUE, ![j].result = res]

\* the thread returns `res`: its guards are dropped, its files are closed
Return(j, res) ==
    job' = [job EXCEPT ![j].pc = "done", ![j].reading = FALSE, ![j].clean = TRUE,
                       ![j].result = res]

\* inner_install, lines 86-91: the read guard of the lock is taken and kept
\* until the function returns; the prior entry is looked up under it
inner_install(j) ==
    /\ mode = "install"
    /\ job[j].pc = "start"
    /\ ~ writer
    /\ job' = [job EXCEPT ![j].pc = "ensure", ![j].reading = TRUE,
                          ![j].dependency_lock = find_dep(lock.deps, spec.deps[j].url)]
    /\ UNCHANGED <<svars, spec, mode, prior, vendor, opc, joined, writer>>

\* inner_update, lines 97-99: the lock is not read, dependency_lock is None
inner_update(j) ==
    /\ mode = "update"
    /\ job[j].pc = "start"
    /\ job' = [job EXCEPT ![j].pc = "ensure", ![j].dependency_lock = None]
    /\ UNCHANGED <<svars, spec, mode, prior, vendor, opc, joined, writer>>

\* a plausible slip: the error of ensure_repository is dropped
ensure_repository_unchecked(j) ==
    /\ job[j].pc = "ensure"
    /\ \E ok \in BOOLEAN :
         job' = [job EXCEPT ![j].pc = IF mode = "install" THEN "checkout" ELSE "fetch",
                            ![j].repository.ensured = ok]
    /\ UNCHANGED <<svars, spec, mode, prior, vendor, opc, joined, writer>>

\* install line 40, update line 52
ensure_repository(j) ==
    /\ job[j].pc = "ensure"
    /\ \E ok \in BOOLEAN :
         IF ok
         THEN job' = [job EXCEPT ![j].pc = IF mode = "install" THEN "checkout" ELSE "fetch",
                                 ![j].repository.ensured = TRUE]
         ELSE Return(j, Err("ensure_repository"))
    /\ UNCHANGED <<svars, spec, mode, prior, vendor, opc, joined, writer>>

\* a plausible slip: the declared reference is used although a lock exists
get_locked_refname_declared(j) == spec.deps[j].refname

\* DependencyManager::get_locked_refname
get_locked_refname(j) ==
    IF job[j].dependency_lock # None
    THEN job[j].dependency_lock[1].refname
    ELSE spec.deps[j].refname

\* where the thread goes once the working copy is at its reference: into the
\* copy_files loop, or past it when the iterator is empty
AfterHead(url, refname) ==
    IF Repository_iter(url, resolve(refname)) = <<>> THEN "refname" ELSE "copy"

\* install, lines 41-44
checkout(j) ==
    /\ job[j].pc = "checkout"
    /\ LET refname == get_locked_refname(j)
       IN  \E ok \in BOOLEAN :
             IF ok
             THEN job' = [job EXCEPT ![j].pc = AfterHead(spec.deps[j].url, refname),
                                     ![j].cursor = 1,
                                     ![j].repository.head = Some(refname)]
             ELSE Return(j, Err("checkout"))
    /\ UNCHANGED <<svars, spec, mode, prior, vendor, opc, joined, writer>>

\* a plausible slip: update resolves its reference as install does
update_refname_locked(j) ==
    LET found == find_dep(lock.deps, spec.deps[j].url)
    IN  IF found # None THEN found[1].refname ELSE spec.deps[j].refname

\* update, line 53
update_refname(j) == spec.deps[j].refname

\* update, line 56
fetch(j) ==
    /\ job[j].pc = "fetch"
    /\ LET refname == update_refname(j)
       IN  \E ok \in BOOLEAN :
             IF ok
             THEN job' = [job EXCEPT ![j].pc = "reset",
                                     ![j].repository.fetched = Some(refname)]
             ELSE Return(j, Err("fetch"))
    /\ UNCHANGED <<svars, spec, mode, prior, vendor, opc, joined, writer>>

\* update, line 57
reset(j) ==
    /\ job[j].pc = "reset"
    /\ LET refname == update_refname(j)
       IN  \E ok \in BOOLEAN :
             IF ok
             THEN job' = [job EXCEPT ![j].pc = AfterHead(spec.deps[j].url, refname),
                                     ![j].cursor = 1,
                                     ![j].repository.head = Some(refname)]
             ELSE Return(j, Err("reset"))
    /\ UNCHANGED <<svars, spec, mode, prior, vendor, opc, joined, writer>>

\* the file at `dst` now holds `content`
write_file(files, dst, content) ==
    {f \in files : f.path # dst} \cup {[path |-> dst, content |-> content]}

\* what a destination file holds: bytes of the file at `path` of dependency
\* `url` at `commit`, and how much of it: "whole", "partial" (a proper
\* prefix, empty after the truncation of the open) or "mixed" (bytes of that
\* file laid over or under what another writer of the same destination put)
Content(url, commit, path, bytes) ==
    [url |-> url, commit |-> commit, path |-> path, bytes |-> bytes]

\* the destination thread `j` is copying to, while it is in copy_file
Destination(j) ==
    join(spec.vendor,
         Repository_iter(spec.deps[j].url,
                         resolve(job[j].repository.head[1]))[job[j].cursor])

\* the other threads that are inside fs::copy on destination `dst`
Writers(j, dst) ==
    {k \in Jobs : k # j /\ job[k].pc = "write" /\ Destination(k) = dst}

\* copy_files, lines 69-90: one turn of the loop, up to the point where
\* fs::copy has opened the destination.  A path that is skipped touches
\* nothing.  copy_file fails with nothing written when create_dir_all or
\* the open fails, and the `?` then returns the error from import, install
\* and the thread.  The open truncates the destination; every thread inside
\* fs::copy on that destination from then on shares the file with another.
copy_files(j) ==
    /\ job[j].pc = "copy"
    /\ LET dependency == spec.deps[j]
           commit == resolve(job[j].repository.head[1])
           paths == Repository_iter(dependency.url, commit)
           relative_path == paths[job[j].cursor]
           dst_path == join(spec.vendor, relative_path)
           next == IF job[j].cursor = Len(paths) THEN "refname" ELSE "copy"
       IN  IF copy_decision(spec, dependency, relative_path) # "COPY"
           THEN /\ job' = [job EXCEPT ![j].pc = next, ![j].cursor = @ + 1]
                /\ UNCHANGED vendor
           ELSE \E ok \in BOOLEAN :
                  IF ok
                  THEN /\ vendor' = [vendor EXCEPT !.files =
                                       write_file(@, dst_path,
                                                  Content(dependency.url, commit,
                                                          relative_path, "partial"))]
                       /\ job' = [k \in DOMAIN job |->
                                   IF k = j
                                   THEN [job[j] EXCEPT !.pc = "write",
                                                       !.clean = Writers(j, dst_path) = {}]
                                   ELSE IF k \in Writers(j, dst_path)
                                   THEN [job[k] EXCEPT !.clean = FALSE]
                                   ELSE job[k]]
                  ELSE /\ Return(j, Err("copy_file"))
                       /\ UNCHANGED vendor
    /\ UNCHANGED <<svars, spec, mode, prior, opc, joined, writer>>

\* what the destination may hold when fs::copy of thread `j` is over: alone
\* on the file, the whole source when it succeeded and a part of it when it
\* failed; with another writer on the file at the same time, also a mix of
\* both, or what the other writer left when all of this thread's writes came
\* before the other's open
fs_copy_outcomes(j, ok) ==
    {IF ok THEN "whole" ELSE "partial"} \cup
    (IF job[j].clean THEN {} ELSE {"mixed", "kept"})

\* copy_file, line 154: the writes of fs::copy and its return.  A failure
\* here leaves the destination truncated or partly written.
fs_copy(j) ==
    /\ job[j].pc = "write"
    /\ LET dependency == spec.deps[j]
           commit == resolve(job[j].repository.head[1])
           paths == Repository_iter(dependency.url, commit)
           relative_path == paths[job[j].cursor]
           dst_path == join(spec.vendor, relative_path)
           next == IF job[j].cursor = Len(paths) THEN "refname" ELSE "copy"
       IN  \E ok \in BOOLEAN : \E bytes \in fs_copy_outcomes(j, ok) :
             /\ vendor' = IF bytes = "kept" THEN vendor
                           ELSE [vendor EXCEPT !.files =
                                   write_file(@, dst_path,
                                              Content(dependency.url, commit,
                                                      relative_path, bytes))]
             /\ IF ok
                THEN job' = [job EXCEPT ![j].pc = next, ![j].cursor = @ + 1,
                                        ![j].clean = TRUE,
                                        ![j].copied = @ \cup {<<relative_path, dst_path>>}]
                ELSE Return(j, Err("copy_file"))
    /\ UNCHANGED <<svars, spec, mode, prior, opc, joined, writer>>

\* import lines 63-65 and get_locked_dependency: the lock entry is built from
\* the dependency's url and the current reference of the working copy
get_locked_dependency(j) ==
    /\ job[j].pc = "refname"
    /\ \E ok \in BOOLEAN :
         IF ok
         THEN Return(j, Ok(DependencyLock(spec.deps[j].url,
                                          resolve(job[j].repository.head[1]))))
         ELSE Return(j, Err("get_current_refname"))
    /\ UNCHANGED <<svars, spec, mode, prior, vendor, opc, joined, writer>>

\* a plausible slip: the first failed dependency fails the run
join_handle_abort ==
    /\ opc = "join"
    /\ joined < Len(spec.deps)
    /\ job[joined + 1].pc = "done"
    /\ opc' = IF job[joined + 1].result.tag = "ok" THEN "lock_write" ELSE "failed"
    /\ joined' = joined
    /\ UNCHANGED <<svars, spec, mode, prior, vendor, writer, job, finished>>

\* execute, lines 63-64: handle.join() of the next handle, in spawn order;
\* update_lock then either logs the error or goes for the write guard
\* a plausible slip: a handle is taken as finished without waiting for it
join_handle_no_wait ==
    /\ opc = "join"
    /\ joined < Len(spec.deps)
    /\ opc' = IF job[joined + 1].result.tag = "ok" THEN "lock_write" ELSE "join"
    /\ joined' = IF job[joined + 1].result.tag = "ok" THEN joined ELSE joined + 1
    /\ UNCHANGED <<svars, spec, mode, prior, vendor, writer, job, finished>>

join_handle ==
    /\ opc = "join"
    /\ joined < Len(spec.deps)
    /\ job[joined + 1].pc = "done"
    /\ opc' = IF job[joined + 1].result.tag = "ok" THEN "lock_write" ELSE "join"
    /\ joined' = IF job[joined + 1].result.tag = "ok" THEN joined ELSE joined + 1
    /\ UNCHANGED <<svars, spec, mode, prior, vendor, writer, job, finished>>

\* a plausible slip: the write guard is granted while read guards are held
lock_write_no_wait ==
    /\ opc = "lock_write"
    /\ ~ writer
    /\ writer' = TRUE
    /\ opc' = "add"
    /\ UNCHANGED <<svars, spec, mode, prior, vendor, joined, job, finished>>

\* update_lock, line 76: self.lock.write() waits until no read guard is held
lock_write ==
    /\ opc = "lock_write"
    /\ ~ writer
    /\ \A j \in Jobs : ~ job[j].reading
    /\ writer' = TRUE
    /\ opc' = "add"
    /\ UNCHANGED <<svars, spec, mode, prior, vendor, joined, job, finished>>

\* update_lock, line 76: add under the write guard, which is then dropped
update_lock ==
    /\ opc = "add"
    /\ \E t \in 0..MaxClock :
         /\ Utc_now(t)
         /\ now' = t
         /\ lock' = add(lock, job[joined + 1].result.val, t)
    /\ writer' = FALSE
    /\ joined' = joined + 1
    /\ opc' = "join"
    /\ UNCHANGED <<loaded, call, spec, mode, prior, vendor, job, finished>>

\* execute, lines 68-70: every handle is joined, the scope ends, Ok(())
execute_return ==
    /\ opc = "join"
    /\ joined = Len(spec.deps)
    /\ opc' = "done"
    /\ UNCHANGED <<svars, spec, mode, prior, vendor, joined, writer, job, finished>>

\* one step of the body of thread `j`
JobSteps(j) ==
    \/ inner_install(j)
    \/ inner_update(j)
    \/ ensure_repository(j)
    \/ checkout(j)
    \/ fetch(j)
    \/ reset(j)
    \/ copy_files(j)
    \/ fs_copy(j)
    \/ get_locked_dependency(j)

JobStep(j) == JobSteps(j) /\ UNCHANGED finished

Next ==
    \/ recreate_vendor_path
    \/ spawn
    \/ join_handle
    \/ lock_write
    \/ update_lock
    \/ execute_return
    \/ \E j \in Jobs : JobStep(j)

Spec == Init /\ [][Next]_vars

\* the scheduling of the threads, the order of the steps of one job and the
\* order of their completion do not depend on the entries of the lock the
\* run starts from: the runs of SpecSteps, SpecFair and SpecOrder start from
\* the empty lock
InitSmallLock ==
    \E deps \in DepLists, m \in {"install", "update"},
       l \in {p \in PriorLocks : Len(p) = 0} :
        InitRun(RunSpec(deps), m, l)

\* the steps of the thread that runs execute
Orchestrator ==
    \/ recreate_vendor_path
    \/ spawn
    \/ join_handle
    \/ lock_write
    \/ update_lock
    \/ execute_return

\* thread `j` can take a step: it has been spawned and has not returned, and
\* lock.read() finds no write guard held
Runnable(j) ==
    /\ j \in Jobs
    /\ job[j].pc \notin {"idle", "done"}
    /\ (mode = "install" /\ job[j].pc = "start") => ~ writer

\* the steps of thread `j` the scheduler owes it: every step it can take,
\* but for lock.read() while the orchestrator waits in lock.write(), since
\* the RwLock may make a new reader wait behind a waiting writer
Waiting(j) == mode = "install" /\ job[j].pc = "start" /\ opc = "lock_write"

Scheduled(j) == Runnable(j) /\ ~ Waiting(j) /\ JobStep(j)

\* every thread of the scope is an operating-system thread and every
\* collaborator call returns, so a thread that can take a step takes one.
\* For the job threads this is WF_vars(Scheduled(j)) written out, with
\* Runnable(j) /\ ~ Waiting(j), a state predicate, for ENABLED <<Scheduled(j)>>_vars
Fairness ==
    /\ WF_vars(Orchestrator)
    /\ \A j \in 1..MaxDeps :
         \/ []<>(~ (Runnable(j) /\ ~ Waiting(j)))
         \/ []<><<Scheduled(j)>>_vars

\* the run from the empty lock, with no fairness assumed
SpecSteps == InitSmallLock /\ [][Next]_vars

SpecFair == InitSmallLock /\ [][Next]_vars /\ Fairness

\* the same run with the order in which the threads return recorded: the
\* step of a thread that returns appends the thread to `finished`
JobStepOrder(j) ==
    /\ JobSteps(j)
    /\ finished' = IF job'[j].pc = "done" THEN Append(finished, j) ELSE finished

NextOrder ==
    \/ recreate_vendor_path
    \/ spawn
    \/ join_handle
    \/ lock_write
    \/ update_lock
    \/ execute_return
    \/ \E j \in Jobs : JobStepOrder(j)

SpecOrder == InitSmallLock /\ [][NextOrder]_vars

SpecCopy == InitCopy /\ [][Next]_vars

(***************************************************************************)
(* Properties                                                              *)
(***************************************************************************)
\* two urls name the same identity
SameIdentity(u, v) == eq_ignore_ascii_case(u, v)

\* the positions of `deps` that hold identity `url`
EntriesOf(deps, url) == {i \in 1..Len(deps) : SameIdentity(deps[i].url, url)}

UniqueIdentities(deps) ==
    \A i, j \in 1..Len(deps) : SameIdentity(deps[i].url, deps[j].url) => i = j

SortedByUrl(deps) ==
    \A i, j \in 1..Len(deps) : i < j => ~ str_lt(deps[j].url, deps[i].url)

\* the jobs of the run that returned a lock entry, and those that failed
Succeeded == {j \in Jobs : job[j].result.tag = "ok"}
Failed == {j \in Jobs : job[j].result.tag = "err"}

\* the entries of `deps` that hold identity `url`, in order
EntrySeqOf(deps, url) ==
    LET same(e) == SameIdentity(e.url, url)
    IN  SelectSeq(deps, same)

\* C1: a failing job neither aborts a sibling nor fails the run: the entry
\* of every job that succeeded is upserted before the run returns (when its
\* handle has been joined, find returns its reference), the run returns only
\* after every handle is joined, and it fails only at destination setup,
\* before any job is spawned.
C1_FailureIsolated ==
    /\ (joined >= 1 /\ opc \in {"join", "lock_write", "add", "done"}
           /\ job[joined].result.tag = "ok") =>
          LET e == job[joined].result.val
          IN  /\ find_dep(lock.deps, e.url) # None
              /\ find_dep(lock.deps, e.url)[1].refname = e.refname
    /\ opc = "done" =>
          /\ joined = Len(spec.deps)
          /\ \A j \in Jobs : job[j].pc = "done"
    /\ opc = "failed" => joined = 0 /\ \A j \in Jobs : job[j].pc = "idle"

\* the run has returned Ok: the first job failed, the second succeeded and
\* its entry is in the store
C1_Witness ==
    /\ opc = "done"
    /\ Len(spec.deps) = 2
    /\ job[1].result.tag = "err"
    /\ job[2].result.tag = "ok"
    /\ find_dep(lock.deps, spec.deps[2].url) # None
    /\ find_dep(prior, spec.deps[2].url) = None

\* C2: when a run completes, the store holds exactly one entry, carrying
\* the returned reference, for every identity whose job succeeded; the
\* entries of every identity whose job failed, and of every prior identity
\* not in the dependency list, are as they were before the run; nothing
\* else is added, removed or changed.
C2_StoreReflectsRun ==
    opc = "done" =>
        /\ \A j \in Succeeded :
             /\ Cardinality(EntriesOf(lock.deps, spec.deps[j].url)) = 1
             /\ find_dep(lock.deps, spec.deps[j].url)[1].refname = job[j].result.val.refname
        /\ \A j \in Failed :
             EntrySeqOf(lock.deps, spec.deps[j].url) = EntrySeqOf(prior, spec.deps[j].url)
        /\ \A i \in 1..Len(prior) :
             (\A j \in Jobs : ~ SameIdentity(prior[i].url, spec.deps[j].url)) =>
                EntrySeqOf(lock.deps, prior[i].url) = EntrySeqOf(prior, prior[i].url)
        /\ \A i \in 1..Len(lock.deps) :
             \/ \E j \in Succeeded : SameIdentity(lock.deps[i].url, spec.deps[j].url)
             \/ \E k \in 1..Len(prior) : prior[k] = lock.deps[i]

\* C3: install checks out the reference of the lock entry that find returns
\* for the dependency's identity whenever there is one, and the declared
\* reference only when there is none.  (The thread keeps its read guard, so
\* the store it looked up is the store of the state.)
C3_InstallChecksOutLocked ==
    \A j \in Jobs :
        (mode = "install" /\ job[j].reading /\ job[j].repository.head # None) =>
            LET hits == EntriesOf(lock.deps, spec.deps[j].url)
            IN  /\ job[j].repository.fetched = None
                /\ IF hits # {}
                   THEN \E i \in hits :
                          /\ \A k \in hits : i <= k
                          /\ job[j].repository.head = Some(lock.deps[i].refname)
                   ELSE job[j].repository.head = Some(spec.deps[j].refname)

\* an install job has checked out the reference locked under another
\* spelling of its url, which is not its declared reference
C3_Witness ==
    \E j \in Jobs :
        /\ mode = "install"
        /\ job[j].reading
        /\ job[j].repository.head # None
        /\ job[j].repository.head # Some(spec.deps[j].refname)
        /\ \E i \in 1..Len(lock.deps) :
             /\ SameIdentity(lock.deps[i].url, spec.deps[j].url)
             /\ lock.deps[i].url # spec.deps[j].url
             /\ job[j].repository.head = Some(lock.deps[i].refname)

\* C4: update never consults the store: whatever it holds, update fetches
\* and resets to the declared reference, and the entry it returns carries
\* the dependency's url and the reference of the working copy after the
\* reset.
C4_UpdateIgnoresLock ==
    \A j \in Jobs :
        mode = "update" =>
            /\ ~ job[j].reading
            /\ job[j].dependency_lock = None
            /\ job[j].repository.fetched \in {None, Some(spec.deps[j].refname)}
            /\ job[j].repository.head \in {None, Some(spec.deps[j].refname)}
            /\ job[j].repository.head # None => job[j].repository.fetched # None
            /\ job[j].result.tag = "ok" =>
                 job[j].result.val =
                    DependencyLock(spec.deps[j].url, resolve(spec.deps[j].refname))

\* an update job has returned its entry while the store holds another
\* reference for its identity
C4_Witness ==
    \E j \in Jobs :
        /\ mode = "update"
        /\ job[j].result.tag = "ok"
        /\ find_dep(lock.deps, spec.deps[j].url) # None
        /\ find_dep(lock.deps, spec.deps[j].url)[1].refname # job[j].result.val.refname
        /\ find_dep(lock.deps, spec.deps[j].url)[1].refname # spec.deps[j].refname

\* C5: starting from an empty Lock Store, after any sequence of upserts the
\* store holds at most one entry per identity, identities compared ignoring
\* letter case.
C5_UpsertKeepsIdentitiesUnique ==
    loaded = <<>> => UniqueIdentities(lock.deps)

\* an upsert whose url differs only in letter case from a stored url has
\* replaced that entry, in a store built from empty that holds two entries
C5_Witness ==
    /\ loaded = <<>>
    /\ call.op = "add"
    /\ Len(lock.deps) = 2
    /\ Len(call.before) = 2
    /\ \E i \in 1..2 : /\ call.before[i].url # call.arg[1].url
                        /\ SameIdentity(call.before[i].url, call.arg[1].url)
                        /\ call.before[i].refname # call.arg[1].refname

\* C6: upsert is idempotent on the entry list: a second upsert(e) leaves the
\* list of entries as the first one left it, with exactly one entry for e's
\* identity.
C6_UpsertIdempotentOneEntry ==
    call.op = "add" =>
        /\ \A t \in 0..MaxClock : add(lock, call.arg[1], t).deps = lock.deps
        /\ Cardinality(EntriesOf(lock.deps, call.arg[1].url)) = 1

\* C7: upsert(e) on a store with an entry for e's identity replaces only the
\* reference of that entry (same length, same order, every other entry and
\* the entry's url untouched) and find(e.identity) then returns e's
\* reference; on a store without one it appends e and changes nothing else.
C7_UpsertFrame ==
    call.op = "add" =>
        LET e == call.arg[1]
            b == call.before
            hits == EntriesOf(b, e.url)
        IN  IF hits # {}
            THEN /\ Len(lock.deps) = Len(b)
                 /\ \E i \in hits :
                      /\ \A k \in hits : i <= k
                      /\ lock.deps[i] = [url |-> b[i].url, refname |-> e.refname]
                      /\ \A k \in 1..Len(b) : k # i => lock.deps[k] = b[k]
                 /\ find_dep(lock.deps, e.url) # None
                 /\ find_dep(lock.deps, e.url)[1].refname = e.refname
            ELSE /\ Len(lock.deps) = Len(b) + 1
                 /\ lock.deps[Len(b) + 1] = e
                 /\ \A k \in 1..Len(b) : lock.deps[k] = b[k]

\* an upsert has replaced the reference of an entry stored under another
\* spelling of the url, in a store of two identities
C7_Witness ==
    /\ call.op = "add"
    /\ Len(call.before) = 2
    /\ UniqueIdentities(call.before)
    /\ \E i \in 1..2 : /\ SameIdentity(call.before[i].url, call.arg[1].url)
                        /\ call.before[i].url # call.arg[1].url
                        /\ call.before[i].refname # call.arg[1].refname
                        /\ lock.deps[i].refname = call.arg[1].refname

\* C8: after normalize the entries are sorted by identity and no two entries
\* have the same identity under case-insensitive comparison.
C8_LintSortedUnique ==
    call.op = "lint" => SortedByUrl(lock.deps) /\ UniqueIdentities(lock.deps)

\* C9: normalize is idempotent: a second normalize leaves the entries as the
\* first one left them.
C9_LintIdempotent ==
    call.op = "lint" => lint(lock).deps = lock.deps

\* lint has reordered and shortened a list of three entries
C9_Witness ==
    /\ call.op = "lint"
    /\ Len(call.before) = 3
    /\ Len(lock.deps) = 2
    /\ lock.deps[1] # call.before[1]

\* the patterns of the spec and of the dependency, taken together
Patterns(a, b) == {(a \o b)[i] : i \in 1..Len(a \o b)}

\* `pat` is a prefix of `p`, in whole path components
IsPathPrefix(pat, p) ==
    LET cp == components(p)
        cq == components(pat)
    IN  \E n \in 0..Len(cp) : cq = [i \in 1..n |-> cp[i]]

Lower(str) == [i \in 1..Len(str) |-> to_ascii_lowercase(str[i])]

\* the path is eligible: not ignored, a target, and of an allowed extension
Eligible(d, p) ==
    /\ \A pat \in Patterns(spec.ignores, d.ignores) : ~ IsPathPrefix(pat, p)
    /\ \E pat \in Patterns(spec.targets, d.targets) : IsPathPrefix(pat, p)
    /\ extension(p) # None
    /\ \E e \in Patterns(spec.extensions, d.extensions) : Lower(e) = Lower(extension(p)[1])

\* the files Repository::iter yields to job j
Enumerated(j) ==
    LET paths == Repository_iter(spec.deps[j].url, resolve(job[j].repository.head[1]))
    IN  {paths[i] : i \in 1..Len(paths)}

\* C10: for a job that succeeds, the files copied are exactly the
\* enumerated files whose relative path p has no ignore pattern as a prefix,
\* has a target pattern as a prefix and has an allowed extension, each
\* copied to destination_root/p; an ignored path is never copied.
C10_CopiedExactlyEligible ==
    \A j \in Jobs :
        job[j].result.tag = "ok" =>
            /\ job[j].copied =
                 {<<p, spec.vendor \o <<47>> \o p>> : p \in {q \in Enumerated(j) : Eligible(spec.deps[j], q)}}
            /\ \A c \in job[j].copied :
                 /\ \E f \in vendor.files : f.path = c[2]
                 /\ \A pat \in Patterns(spec.ignores, spec.deps[j].ignores) :
                      ~ IsPathPrefix(pat, c[1])

\* a job has succeeded having copied "a/x.p" and "a/z.P" and having left
\* out "a/i/y.p" (ignored, under a target, of an allowed extension),
\* "ab/x.p" (no target), "a/x" and "a/.p" (no extension)
C10_Witness ==
    \E j \in Jobs :
        /\ job[j].result.tag = "ok"
        /\ {c[1] : c \in job[j].copied} = {P_a_x_p, P_a_z_P}
        /\ Enumerated(j) = {P_a_x_p, P_a_i_y_p, P_ab_x_p, P_a_x, P_a_z_P, P_a_dot_p}
        /\ \E pat \in Patterns(spec.ignores, spec.deps[j].ignores) : IsPathPrefix(pat, P_a_i_y_p)
        /\ \E pat \in Patterns(spec.targets, spec.deps[j].targets) : IsPathPrefix(pat, P_a_i_y_p)

\* every path of the working copies of the model
AllPaths ==
    {P_a_x_p, P_a_x_t, P_i_y_p, P_b_z_P, P_a_i_y_p, P_ab_x_p, P_a_x, P_a_z_P, P_a_dot_p}

NoTargets(j) == spec.targets = <<>> /\ spec.deps[j].targets = <<>>

\* C11: when the spec-level and the dependency-level target lists are both
\* empty, is_target is false for every path and the job copies no file,
\* whatever the ignore and extension patterns and the working copy are.
C11_NoTargetsNothingCopied ==
    /\ \A j \in Jobs :
         NoTargets(j) =>
            /\ \A p \in AllPaths : ~ is_target(spec, spec.deps[j], p)
            /\ job[j].copied = {}
    /\ ((\A j \in Jobs : NoTargets(j)) /\ opc \notin {"setup", "failed"}) =>
          vendor.files = {}

\* a job without any target pattern has gone through its six files and
\* succeeded, with nothing ignored and the extension "p" allowed
C11_Witness ==
    \E j \in Jobs :
        /\ NoTargets(j)
        /\ job[j].result.tag = "ok"
        /\ job[j].cursor = 7
        /\ Patterns(spec.ignores, spec.deps[j].ignores) = {}
        /\ <<112>> \in Patterns(spec.extensions, spec.deps[j].extensions)

\* the extensions of file name `name`: what follows its last '.', a '.' that
\* is not the first character of the name (at most one element)
ExtensionsOf(name) ==
    {[m \in 1..(Len(name) - k) |-> name[k + m]] :
        k \in {i \in 2..Len(name) :
                /\ name[i] = 46
                /\ \A m \in (i + 1)..Len(name) : name[m] # 46}}

LastComponent(p) ==
    LET c == components(p) IN IF c = <<>> THEN <<>> ELSE c[Len(c)]

\* C12: is_extension_allowed is false for every path without an extension,
\* whatever the patterns; for a path with an extension it is true exactly
\* when some spec-level or dependency-level pattern equals the extension
\* ignoring letter case.
C12_ExtensionAllowed ==
    \A j \in Jobs :
        LET pats == {Lower(e) : e \in Patterns(spec.extensions, spec.deps[j].extensions)}
        IN  \A p \in AllPaths :
            LET exts == ExtensionsOf(LastComponent(p))
                allowed == is_extension(spec, spec.deps[j], p)
            IN  /\ exts = {} => ~ allowed
                /\ exts # {} => (allowed <=> \E x \in exts : Lower(x) \in pats)
                /\ (job[j].result.tag = "ok" /\ p \in Enumerated(j)
                      /\ ~ is_ignored(spec, spec.deps[j], p)
                      /\ is_target(spec, spec.deps[j], p)) =>
                     (<<p, join(spec.vendor, p)>> \in job[j].copied <=> allowed)

\* with "p" the only extension pattern, a job has copied "a/z.P" and has
\* left out the targets "a/x" and "a/.p", which have no extension
C12_Witness ==
    \E j \in Jobs :
        /\ job[j].result.tag = "ok"
        /\ Patterns(spec.extensions, spec.deps[j].extensions) = {<<112>>}
        /\ <<P_a_z_P, join(spec.vendor, P_a_z_P)>> \in job[j].copied
        /\ copy_decision(spec, spec.deps[j], P_a_x) = "IGNORED EXTENSION"
        /\ copy_decision(spec, spec.deps[j], P_a_dot_p) = "IGNORED EXTENSION"

\* the destinations job `j` has opened, or may have opened: those of the
\* files it copied and, when it failed in copy_file, the one it failed on
Touched(j) ==
    {c[2] : c \in job[j].copied} \cup
    (IF job[j].result.tag = "err" /\ job[j].result.err = "copy_file"
     THEN {Destination(j)} ELSE {})

\* the files of the destination tree that hold bytes of dependency `j`
FilesOf(j) ==
    {f \in vendor.files : f.path \in Touched(j) /\ f.content.url = spec.deps[j].url}

\* C13: if a dependency's job fails at any step (ensure, checkout, fetch,
\* reset, copying one file, querying the current reference), then when the
\* run completes the destination tree holds none of that dependency's files.
C13_FailedLeavesNoFiles ==
    opc = "done" => \A j \in Failed : FilesOf(j) = {}

\* C14: if the destination setup fails (the existing destination cannot be
\* removed, the directory cannot be created, or the path is occupied by a
\* non-directory), the run returns an error at once: no job is ever started
\* and the lock is left as it was.  A path occupied by anything but a
\* directory therefore makes the setup step end in the failure.
C14_SetupFailureStartsNothing ==
    /\ [](opc = "failed" =>
            /\ \A j \in Jobs : job[j] = NewJob
            /\ joined = 0 /\ ~ writer
            /\ lock = [deps |-> prior, updated_at |-> 0]
            /\ ~ ENABLED Next)
    /\ [][(opc = "setup" /\ vendor.kind \in {"file", "link", "dangling"})
             => opc' = "failed"]_vars

\* what job `j` writes for relative path `p`: the file of its dependency at
\* the reference its working copy is at
ContentOf(j, p) ==
    Content(spec.deps[j].url, resolve(job[j].repository.head[1]), p, "whole")

\* the tree after job `j` has copied the first `i` of its eligible files over
\* `files`, in the order of the enumeration
RECURSIVE CopiedOver(_, _, _)
CopiedOver(files, j, i) ==
    LET paths == Repository_iter(spec.deps[j].url, resolve(job[j].repository.head[1]))
    IN  IF i = 0 THEN files
        ELSE LET before == CopiedOver(files, j, i - 1)
             IN  IF copy_decision(spec, spec.deps[j], paths[i]) = "COPY"
                 THEN write_file(before, join(spec.vendor, paths[i]), ContentOf(j, paths[i]))
                 ELSE before

\* the tree of the run in which the first `n` jobs run one after the other,
\* in the order of the dependency list, each at the reference it resolved
RECURSIVE SequentialTree(_)
SequentialTree(n) ==
    IF n = 0 THEN {}
    ELSE CopiedOver(SequentialTree(n - 1), n,
                    Len(Repository_iter(spec.deps[n].url,
                                        resolve(job[n].repository.head[1]))))

\* the destinations two different jobs have both written
Collisions ==
    {d \in {f.path : f \in vendor.files} :
        \E j, k \in Jobs : j # k /\ \E c \in job[j].copied, e \in job[k].copied :
            c[2] = d /\ e[2] = d}

\* C15: the final destination tree of an Install run is a deterministic
\* function of the working copies at the resolved references and of the
\* filter patterns, the same for every interleaving of the jobs, also when
\* two dependencies hold eligible files at one relative path: it is the
\* tree of the interleaving that runs the jobs one after the other.
C15_TreeDeterministic ==
    (mode = "install" /\ opc = "done" /\ Succeeded = Jobs) =>
        vendor.files = SequentialTree(Len(spec.deps))

\* C15 (amended): in the final tree of an Install run every file was
\* written by a job of the run, at the destination of the relative path it
\* holds bytes of and at the reference that job checked out; every file a
\* job copied is there; and a destination that one job only has written to
\* holds the whole copy that job made, for every interleaving.  A
\* destination several jobs wrote to holds the copy of one of them or a mix.
C15_TreeUpToCollisions ==
    (mode = "install" /\ opc = "done") =>
        /\ \A f \in vendor.files : \E j \in Jobs :
             /\ f.path \in Touched(j)
             /\ f.path = join(spec.vendor, f.content.path)
             /\ f.content.url = spec.deps[j].url
             /\ f.content.commit = resolve(job[j].repository.head[1])
        /\ \A f, g \in vendor.files : f.path = g.path => f = g
        /\ \A j \in Jobs : \A c \in job[j].copied :
             /\ \E f \in vendor.files : f.path = c[2]
             /\ (\A k \in Jobs \ {j} : c[2] \notin Touched(k)) =>
                  [path |-> c[2], content |-> ContentOf(j, c[1])] \in vendor.files

\* an Install run in which every job succeeded and two dependencies copied
\* to one destination has ended with the tree of the sequential run
C15_Witness ==
    /\ mode = "install" /\ opc = "done" /\ Succeeded = Jobs
    /\ Collisions # {}
    /\ vendor.files = SequentialTree(Len(spec.deps))

\* C16: the lock is mutated only by the orchestrator's merge step, by one
\* writer at a time: the write guard is held only during the upsert of the
\* orchestrator, never while a job holds a read guard, and every change of
\* the lock is one upsert made under the write guard, by a step that is no
\* step of a job.
C16_StoreWrittenByOrchestratorAlone ==
    /\ [](writer => (opc = "add" /\ \A j \in Jobs : ~ job[j].reading))
    /\ [][lock' # lock =>
            /\ writer /\ opc = "add" /\ ~ writer'
            /\ job' = job
            /\ \A j \in Jobs : ~ job[j].reading
            /\ \E t \in 0..MaxClock : lock' = add(lock, job[joined + 1].result.val, t)]_vars

\* the orchestrator holds the write guard during an Install run while
\* another job is still on its way and one has not yet taken its read guard
C16_Witness ==
    /\ mode = "install" /\ writer
    /\ \E j, k \in Jobs :
         /\ job[j].pc = "start"
         /\ job[k].pc = "done" /\ job[k].dependency_lock # None

\* C17: no job observes another job's result: the prior lock entry an
\* Install job uses is the entry of the lock as it was before any job of
\* the run started, for every interleaving of job starts, job completions
\* and merges, also when two dependencies of the run have one identity.
C17_JobsSeePriorStore ==
    \A j \in Jobs :
        (mode = "install" /\ job[j].pc \notin {"idle", "start"}) =>
            job[j].dependency_lock = find_dep(prior, spec.deps[j].url)

\* the place of thread `j` in the order of completion
CompletedAt(j) == CHOOSE i \in 1..Len(finished) : finished[i] = j

Completed == {finished[i] : i \in 1..Len(finished)}

\* the result of thread `j` has been upserted, or its failure logged
Handled(j) == j <= joined

\* C18: the orchestrator merges the results in the order of completion: if
\* job A completes before job B, A's result is upserted (or its failure
\* logged) before B's.
C18_MergedInCompletionOrder ==
    \A a, b \in Completed :
        (CompletedAt(a) < CompletedAt(b) /\ Handled(b)) => Handled(a)

\* C18 (amended): the results are merged in the order of the dependency
\* list, the order of the spawns, each after its own job has completed:
\* while the next job of the list is running the orchestrator does nothing,
\* whichever later jobs have completed.
C18_MergedInListOrder ==
    /\ \A j \in Jobs : Handled(j) => (j \in Completed /\ \A k \in 1..j : Handled(k))
    /\ (opc = "join" /\ joined < Len(spec.deps) /\ (joined + 1) \notin Completed) =>
          ~ ENABLED (join_handle \/ lock_write \/ update_lock \/ execute_return)
    /\ opc \in {"lock_write", "add"} => job[joined + 1].result.tag = "ok"

\* the second job completed first and the first job has been handled first
C18_Witness ==
    /\ Len(finished) = 2 /\ finished[1] = 2
    /\ joined = 1
    /\ job[1].result.tag = "ok" /\ job[2].result.tag = "ok"

\* how far a thread is in its job
Rank(pc) ==
    CASE pc = "idle" -> 0
      [] pc = "start" -> 1
      [] pc = "ensure" -> 2
      [] pc \in {"checkout", "fetch"} -> 3
      [] pc = "reset" -> 4
      [] pc \in {"copy", "write"} -> 5
      [] pc = "refname" -> 6
      [] pc = "done" -> 7

\* what job `j` has done so far is a prefix of its fixed order of operations
InOrder(j) ==
    LET r == job[j].repository
        done == job[j].pc = "done"
        res == job[j].result
        paths == Repository_iter(spec.deps[j].url, resolve(r.head[1]))
    IN  /\ mode = "install" => (job[j].pc \notin {"fetch", "reset"} /\ r.fetched = None)
        /\ mode = "update" => job[j].pc # "checkout"
        /\ job[j].pc \in {"checkout", "fetch", "reset", "copy", "write", "refname"} =>
             r.ensured
        /\ r.fetched # None => r.ensured
        /\ r.head # None => (r.ensured /\ (mode = "update" => r.fetched # None))
        /\ r.head = None => (job[j].cursor = 0 /\ job[j].copied = {})
        /\ job[j].pc \in {"copy", "write", "refname"} => r.head # None
        /\ job[j].pc \in {"copy", "write"} => job[j].cursor \in 1..Len(paths)
        /\ job[j].pc = "write" =>
             /\ copy_decision(spec, spec.deps[j], paths[job[j].cursor]) = "COPY"
             /\ \A c \in job[j].copied : c[1] # paths[job[j].cursor]
        /\ job[j].pc = "refname" => job[j].cursor = Len(paths) + 1
        /\ (res.tag # "none") <=> done
        /\ res.tag = "ok" => (r.head # None /\ job[j].cursor = Len(paths) + 1)
        /\ res.tag = "err" =>
             CASE res.err = "ensure_repository" ->
                    ~ r.ensured /\ r.fetched = None /\ r.head = None
               [] res.err = "checkout" ->
                    mode = "install" /\ r.ensured /\ r.head = None
               [] res.err = "fetch" ->
                    mode = "update" /\ r.ensured /\ r.fetched = None /\ r.head = None
               [] res.err = "reset" ->
                    mode = "update" /\ r.fetched # None /\ r.head = None
               [] res.err = "copy_file" ->
                    /\ r.head # None
                    /\ job[j].cursor \in 1..Len(paths)
                    /\ \A c \in job[j].copied : c[1] # paths[job[j].cursor]
               [] res.err = "get_current_refname" ->
                    r.head # None /\ job[j].cursor = Len(paths) + 1

\* C19: within one job the operations occur in a fixed order and stop at
\* the first failure: Install does ensure, checkout, the file copy, the
\* current-reference query; Update does ensure, fetch, reset, the file copy,
\* the current-reference query. An entry is returned only after every
\* earlier step succeeded, no step is retried, and after a failed step no
\* later step of that job runs.
C19_StepsInOrder ==
    /\ [](\A j \in Jobs : InOrder(j))
    /\ [][\A j \in Jobs :
            [job'[j] EXCEPT !.clean = TRUE] # [job[j] EXCEPT !.clean = TRUE] =>
                /\ job[j].pc # "done"
                /\ \/ Rank(job'[j].pc) > Rank(job[j].pc)
                   \/ /\ job[j].pc = "copy" /\ job'[j].pc = "write"
                      /\ job'[j].cursor = job[j].cursor
                   \/ /\ job[j].pc \in {"copy", "write"} /\ job'[j].pc = "copy"
                      /\ job'[j].cursor = job[j].cursor + 1]_vars

\* an Update run in which one job went through all its steps and returned
\* an entry and another stopped at a failed reset, after its fetch
C19_Witness ==
    /\ mode = "update"
    /\ \E j, k \in Jobs :
         /\ job[j].result.tag = "ok" /\ job[j].copied # {}
         /\ job[k].result.tag = "err" /\ job[k].result.err = "reset"
         /\ job[k].repository.fetched # None

\* the run is over: the setup failed, or every handle is joined, no guard is
\* held and every successful result is in the lock
Completed_run ==
    \/ opc = "failed"
    \/ /\ opc = "done"
       /\ joined = Len(spec.deps)
       /\ ~ writer
       /\ \A j \in Jobs : job[j].pc = "done" /\ ~ job[j].reading
       /\ \A j \in Succeeded : find_dep(lock.deps, spec.deps[j].url) # None

\* C20: if every collaborator operation returns and scheduling is fair,
\* every run completes with all jobs joined and all successful results
\* merged: the waits for the write guard and for the read guards never
\* deadlock, whatever the number of dependencies and the interleaving.
C20_RunCompletes ==
    /\ [](Completed_run \/ ENABLED Orchestrator \/ \E j \in Jobs : Runnable(j))
    /\ <>Completed_run

\* the orchestrator waits for the write guard while a job that has not
\* returned holds its read guard and another result is ready to be merged
C20_Witness ==
    /\ opc = "lock_write"
    /\ \E j \in Jobs : job[j].reading /\ job[j].pc \notin {"start", "done"}

====
